---- MODULE Spec2Model ----
(***************************************************************************)
(* A model of tableflip: the tokenizer (parser.rs), the row splitter       *)
(* (rows.rs), the table accumulator (table.rs) and their composition in    *)
(* main.rs.                                                                *)
(*                                                                         *)
(* A text is a sequence of code points.  A code point is a string naming   *)
(* it; "U+00E9" is a two-byte letter and "U+00A0" a two-byte white space.  *)
(***************************************************************************)
EXTENDS Naturals, Sequences, FiniteSets

VARIABLES
    \* parser.rs: Parser and its Tracker
    input,          \* Parser.input
    rest,           \* Tracker.rest, as the number of code points already taken
    tracker_pos,    \* Tracker.pos
    lex_start,      \* Parser.lex_start
    running,        \* Parser.running
    produced,       \* the items Iterator::next has returned as Some(..)
    lastRes,        \* what the latest Iterator::next returned
    \* rows.rs: Inner (the Peekable and n_cols), Rows, Head, Tail, TailRow
    tokens,         \* the token sequence behind Inner.iter
    pos,            \* how many tokens Inner.iter has handed out
    peeked,         \* Peekable holds a peeked item
    n_cols,         \* Inner.n_cols
    headInner,      \* Head.inner is Some
    rowsInner,      \* Rows.inner is Some
    tailInner,      \* Tail.inner is Some
    headLive,       \* the Head value has not been dropped
    headEnded,      \* Head::next has returned None
    headOut,        \* the values Head::next has returned
    rowLive,        \* a TailRow value exists
    cols_left,      \* TailRow.cols_left
    state,          \* TailRow.state
    rowRes,         \* what the latest Tail::row returned
    rowStart,       \* pos when the latest TailRow was made
    rowOut,         \* the values the latest TailRow has returned
    \* table.rs: Table
    cols_width,     \* Table.cols_width
    rows,           \* Table.rows
    rows_len,       \* Table.rows_len
    headers,        \* how many times Table::head has stored a header
    \* main.rs
    stdout,         \* what print! has written
    stderr,         \* what eprintln! has written: the offsets reported
    pc,             \* "main" while main runs, "exit" once it has returned,
                    \* "error" once parse_error has ended the process
    fault           \* the panic that ended the run, or "none"

parserVars == <<input, rest, tracker_pos, lex_start, running, produced, lastRes>>
iterVars == <<tokens, pos, peeked, n_cols>>
ownerVars == <<headInner, rowsInner, tailInner>>
headVars == <<headLive, headEnded, headOut>>
rowVars == <<rowLive, cols_left, state, rowRes, rowStart, rowOut>>
tableVars == <<cols_width, rows, rows_len, headers>>
vars == <<parserVars, iterVars, ownerVars, headVars, rowVars, tableVars, stdout, stderr, pc, fault>>

(***************************************************************************)
(* Bounds of the model.                                                    *)
(***************************************************************************)
MaxInput == 5
MaxTokens == 6
MaxRows == 3

None == [tag |-> "None"]

RECURSIVE SeqsUpTo(_, _)
SeqsUpTo(S, n) ==
    IF n = 0 THEN {<<>>}
    ELSE LET shorter == SeqsUpTo(S, n - 1)
         IN  shorter \cup {Append(s, x) : s \in {t \in shorter : Len(t) = n - 1}, x \in S}

(***************************************************************************)
(* Code points and UTF-8.                                                  *)
(***************************************************************************)
QUOTE == "\""
LineFeed == "\n"
Chars == {QUOTE, LineFeed, " ", "a", "U+00E9", "U+00A0"}

len_utf8(ch) == IF ch \in {"U+00E9", "U+00A0"} THEN 2 ELSE 1

is_whitespace(ch) == ch \in {" ", LineFeed, "U+00A0"}

\* The byte offset of the code point boundary after the first i code points.
RECURSIVE ByteOffset(_, _)
ByteOffset(text, i) ==
    IF i = 0 THEN 0 ELSE ByteOffset(text, i - 1) + len_utf8(text[i])

is_char_boundary(text, b) == \E i \in 0..Len(text) : ByteOffset(text, i) = b

CharIndex(text, b) == CHOOSE i \in 0..Len(text) : ByteOffset(text, i) = b

\* &text[from..to], byte offsets: the slice, or a panic off a boundary.
StrSlice(text, from, to) ==
    IF from <= to /\ is_char_boundary(text, from) /\ is_char_boundary(text, to)
    THEN [ok |-> TRUE, text |-> SubSeq(text, CharIndex(text, from) + 1, CharIndex(text, to))]
    ELSE [ok |-> FALSE, text |-> <<>>]

(***************************************************************************)
(* Lexeme and the items of the tokenizer.                                  *)
(***************************************************************************)
Cell(text) == [tag |-> "Cell", text |-> text]
NewLine == [tag |-> "NewLine"]
Ok(lex) == [tag |-> "Ok", lex |-> lex]
Err(at) == [tag |-> "Err", at |-> at]
Panic == [tag |-> "Panic"]

(***************************************************************************)
(* Tracker::next: one code point off rest, pos advanced by its length.     *)
(***************************************************************************)
\* (the position counted in code points)
TrackerAdvance_ByOne(p, ch) == p + 1

TrackerAdvance(p, ch) == p + len_utf8(ch)

\* Iterator::position over the tracker: the code points before the next
\* QUOTE, which is taken too; None when there is none, all input taken.
RECURSIVE TrackerPosition(_, _, _, _)
TrackerPosition(text, r, p, count) ==
    IF r = Len(text) THEN [found |-> FALSE, len |-> count, rest |-> r, pos |-> p]
    ELSE LET ch == text[r + 1]
             p1 == TrackerAdvance(p, ch)
         IN  IF ch = QUOTE
             THEN [found |-> TRUE, len |-> count, rest |-> r + 1, pos |-> p1]
             ELSE TrackerPosition(text, r + 1, p1, count + 1)

\* The slice a cell borrows: &input[start..start + len].
CellSlice(text, start, len) == StrSlice(text, start, start + len)

\* Parser::next after the opening quote.
ScanCell(text, r, p, ls) ==
    LET found == TrackerPosition(text, r, p, 0)
        start == ls + len_utf8(QUOTE)
        slice == CellSlice(text, start, found.len)
    IN  [res |-> IF ~found.found THEN Err(ls)
                 ELSE IF slice.ok THEN Ok(Cell(slice.text))
                 ELSE Panic,
         rest |-> found.rest, pos |-> found.pos, lex_start |-> ls]

\* Parser::next (the inherent one): the loop over white space, then the cell.
RECURSIVE ParserInnerNext(_, _, _)
ParserInnerNext(text, r, p) ==
    IF r = Len(text) THEN [res |-> None, rest |-> r, pos |-> p, lex_start |-> p]
    ELSE LET ch == text[r + 1]
             p1 == TrackerAdvance(p, ch)
         IN  IF ch = LineFeed
             THEN [res |-> Ok(NewLine), rest |-> r + 1, pos |-> p1, lex_start |-> p]
             ELSE IF is_whitespace(ch) THEN ParserInnerNext(text, r + 1, p1)
             ELSE IF ch = QUOTE THEN ScanCell(text, r + 1, p1, p)
             ELSE [res |-> Err(p), rest |-> r + 1, pos |-> p1, lex_start |-> p]

\* (the flag never cleared)
RunningAfter_Always(lex) == TRUE

\* The flag Iterator::next keeps after an item.
RunningAfter(lex) == lex.tag = "Ok"

\* Iterator for Parser :: next, as a function of the parser's fields.
ParserPull(text, r, p, ls, run) ==
    IF run
    THEN LET got == ParserInnerNext(text, r, p)
         IN  [res |-> got.res, rest |-> got.rest, pos |-> got.pos,
              lex_start |-> got.lex_start,
              running |-> IF got.res \in {None, Panic} THEN run ELSE RunningAfter(got.res)]
    ELSE [res |-> None, rest |-> r, pos |-> p, lex_start |-> ls, running |-> run]

(***************************************************************************)
(* rows.rs.  A value a view returns is the text with the place of the      *)
(* token it borrows from (src, 0 for the static empty text).               *)
(***************************************************************************)
Some(text, src) == [tag |-> "Some", text |-> text, src |-> src]

\* Peekable::next: the item and the position after it.
IterNext(toks, p) ==
    IF p < Len(toks) THEN [item |-> toks[p + 1], pos |-> p + 1]
    ELSE [item |-> None, pos |-> p]

\* A peek that shows nothing when a NewLine comes next.
IterPeek_BlankEnds(toks, p) ==
    IF IterNext(toks, p).item = NewLine THEN None ELSE IterNext(toks, p).item

\* Peekable::peek: the item next() would return.
IterPeek(toks, p) == IterNext(toks, p).item

\* A Head::next that leaves the token that ends the header in the sequence.
HeadPull_KeepsTerminator(toks, p, n) ==
    LET got == IterNext(toks, p)
    IN  IF got.item.tag = "Cell"
        THEN [res |-> Some(got.item.text, got.pos), pos |-> got.pos, n_cols |-> n + 1]
        ELSE [res |-> None, pos |-> p, n_cols |-> n]

\* Head::next
HeadPull(toks, p, n) ==
    LET got == IterNext(toks, p)
    IN  IF got.item.tag = "Cell"
        THEN [res |-> Some(got.item.text, got.pos), pos |-> got.pos, n_cols |-> n + 1]
        ELSE [res |-> None, pos |-> got.pos, n_cols |-> n]

\* header.into_iter().collect() over a Head: pulls until the first None.
RECURSIVE HeadCollect(_, _, _, _)
HeadCollect(toks, p, n, acc) ==
    LET got == HeadPull(toks, p, n)
    IN  IF got.res = None THEN [out |-> acc, pos |-> got.pos, n_cols |-> got.n_cols]
        ELSE HeadCollect(toks, got.pos, got.n_cols, Append(acc, got.res))

\* The loop of TailRow::next that ignores the rest of the line.
RECURSIVE SkipLine(_, _)
SkipLine(toks, p) ==
    LET got == IterNext(toks, p)
    IN  IF got.item.tag = "Cell" THEN SkipLine(toks, got.pos) ELSE got.pos

\* (the rest of the line never ignored)
LastColumn_Never(cl) == cl = 0

\* Whether TailRow::next ignores the rest of the line after this cell.
LastColumn(cl) == cl = 1

\* TailRow::next (the inherent one)
\* (pulled: whether inner.iter.next() was called)
RowInnerNext(toks, p, cl, st) ==
    IF st = "Iterate"
    THEN LET got == IterNext(toks, p)
         IN  IF got.item.tag = "Cell"
             THEN [res |-> Some(got.item.text, got.pos),
                   pos |-> IF LastColumn(cl) THEN SkipLine(toks, got.pos) ELSE got.pos,
                   state |-> st, pulled |-> TRUE]
             ELSE IF got.item.tag = "NewLine"
             THEN IF cl = 0
                  THEN [res |-> None, pos |-> got.pos, state |-> "Done", pulled |-> TRUE]
                  ELSE [res |-> Some(<<>>, 0), pos |-> got.pos, state |-> "Default",
                        pulled |-> TRUE]
             ELSE [res |-> None, pos |-> got.pos, state |-> st, pulled |-> TRUE]
    ELSE IF st = "Default"
    THEN [res |-> IF cl = 0 THEN None ELSE Some(<<>>, 0), pos |-> p, state |-> st,
          pulled |-> FALSE]
    ELSE [res |-> None, pos |-> p, state |-> st, pulled |-> FALSE]

\* Iterator for TailRow :: next
RowPull(toks, p, cl, st) ==
    IF cl = 0 THEN [res |-> None, pos |-> p, cols_left |-> cl, state |-> st, pulled |-> FALSE]
    ELSE LET got == RowInnerNext(toks, p, cl, st)
         IN  [res |-> got.res, pos |-> got.pos, cols_left |-> cl - 1, state |-> got.state,
              pulled |-> got.pulled]

\* A for loop (or collect) over a TailRow: pulls until the first None.
RECURSIVE RowCollect(_, _, _, _, _, _)
RowCollect(toks, p, cl, st, acc, pulled) ==
    LET got == RowPull(toks, p, cl, st)
    IN  IF got.res = None
        THEN [out |-> acc, pos |-> got.pos, cols_left |-> got.cols_left, state |-> got.state,
              pulled |-> (pulled \/ got.pulled)]
        ELSE RowCollect(toks, got.pos, got.cols_left, got.state, Append(acc, got.res),
                        pulled \/ got.pulled)

\* (no check at the drop)
RowDropPanics_Never(cl, panicking) == FALSE

\* Drop for TailRow: whether the check panics.
RowDropPanics(cl, panicking) == cl # 0 /\ ~panicking

(***************************************************************************)
(* table.rs                                                                *)
(***************************************************************************)
chars_count(text) == Len(text)

\* A width that follows the latest cell instead of the widest one.
Max_Latest(a, b) == a

Max(a, b) == IF a >= b THEN a ELSE b

Texts(vals) == [i \in 1..Len(vals) |-> vals[i].text]

\* Table::cols_len
cols_len(widths) == Len(widths)

\* Table::head after its assertion: the store and the widths.
TableWithHeader(cells) ==
    [rows |-> cells, cols_width |-> [i \in 1..Len(cells) |-> chars_count(cells[i])]]

\* A Table::tail that takes a row of any length.
TailLenOk_Always(len, widths) == TRUE

\* The assertion of Table::tail.
TailLenOk(len, widths) == len = cols_len(widths)

\* The loop of Table::tail over the cells the row yields.
TableWithRow(widths, store, cells) ==
    [rows |-> store \o cells,
     cols_width |-> [i \in 1..Len(widths) |->
                        IF i <= Len(cells) THEN Max(chars_count(cells[i]), widths[i])
                        ELSE widths[i]]]

\* Display for Table :: fmt.  The text is a sequence of code points.
RECURSIVE Repeat(_, _)
Repeat(ch, n) == IF n = 0 THEN <<>> ELSE <<ch>> \o Repeat(ch, n - 1)

\* "| {:width$} ": the cell, padded on the right to width code points.
FmtCell(cell, width) ==
    <<"|", " ">> \o cell
        \o Repeat(" ", IF width > chars_count(cell) THEN width - chars_count(cell) ELSE 0)
        \o <<" ">>

\* One row of cells zipped with the widths, closed by "|" and a line break.
RECURSIVE FmtRow(_, _, _)
FmtRow(cells, widths, i) ==
    IF i > Len(cells) \/ i > Len(widths) THEN <<"|", LineFeed>>
    ELSE FmtCell(cells[i], widths[i]) \o FmtRow(cells, widths, i + 1)

RECURSIVE FmtSeparator(_, _)
FmtSeparator(widths, i) ==
    IF i > Len(widths) THEN <<"|", LineFeed>>
    ELSE <<"|">> \o Repeat("-", widths[i] + 2) \o FmtSeparator(widths, i + 1)

\* The chunks of the store from cell `from` on, each formatted as a row.
RECURSIVE FmtChunks(_, _, _)
FmtChunks(store, widths, from) ==
    IF from > Len(store) THEN <<>>
    ELSE LET to == IF from + cols_len(widths) - 1 < Len(store)
                   THEN from + cols_len(widths) - 1 ELSE Len(store)
         IN  FmtRow(SubSeq(store, from, to), widths, 1) \o FmtChunks(store, widths, to + 1)

\* A fmt that never stops after the header line.
HeaderOnly_Never(len) == FALSE

\* Whether fmt stops after the header line.
HeaderOnly(len) == len = 1

fmt(widths, store, len) ==
    IF store = <<>> THEN <<>>
    ELSE LET n == cols_len(widths)
             header == FmtRow(SubSeq(store, 1, IF n < Len(store) THEN n ELSE Len(store)), widths, 1)
         IN  IF HeaderOnly(len) THEN header
             ELSE header \o FmtSeparator(widths, 1) \o FmtChunks(store, widths, n + 1)

(***************************************************************************)
(* The state after Parser::new, Rows::new(..).split() and Table::new().    *)
(***************************************************************************)
TokenAlphabet == {NewLine, Cell(<<"a">>), Cell(<<"b", "b">>)}

InitParserFields ==
    /\ rest = 0
    /\ tracker_pos = 0
    /\ lex_start = 0
    /\ running = TRUE
    /\ produced = <<>>
    /\ lastRes = None

InitRows ==
    /\ pos = 0
    /\ peeked = FALSE
    /\ n_cols = 0
    /\ headInner = TRUE
    /\ rowsInner = FALSE
    /\ tailInner = FALSE
    /\ headLive = TRUE
    /\ headEnded = FALSE
    /\ headOut = <<>>
    /\ rowLive = FALSE
    /\ cols_left = 0
    /\ state = "Iterate"
    /\ rowRes = "none yet"
    /\ rowStart = 0
    /\ rowOut = <<>>

InitTable ==
    /\ cols_width = <<>>
    /\ rows = <<>>
    /\ rows_len = 0
    /\ headers = 0

Init ==
    /\ input = <<>>
    /\ InitParserFields
    /\ tokens \in SeqsUpTo(TokenAlphabet, MaxTokens)
    /\ InitRows
    /\ InitTable
    /\ stdout = <<>>
    /\ stderr = <<>>
    /\ pc = "main"
    /\ fault = "none"

InitText ==
    /\ input \in SeqsUpTo(Chars, MaxInput)
    /\ InitParserFields
    /\ tokens = <<>>
    /\ InitRows
    /\ InitTable
    /\ stdout = <<>>
    /\ stderr = <<>>
    /\ pc = "main"
    /\ fault = "none"

(***************************************************************************)
(* parser.rs: one call of Iterator::next on the Parser.                    *)
(***************************************************************************)
ParserNext ==
    /\ fault = "none"
    /\ LET got == ParserPull(input, rest, tracker_pos, lex_start, running)
       IN  /\ rest' = got.rest
           /\ tracker_pos' = got.pos
           /\ lex_start' = got.lex_start
           /\ running' = got.running
           /\ lastRes' = got.res
           /\ produced' = IF got.res \in {None, Panic} THEN produced
                          ELSE Append(produced, got.res)
           /\ fault' = IF got.res = Panic THEN "slice" ELSE fault
    /\ UNCHANGED <<input, iterVars, ownerVars, headVars, rowVars, tableVars, stdout, stderr, pc>>

(***************************************************************************)
(* rows.rs and table.rs: the operations a caller has.                      *)
(***************************************************************************)
\* Head::next, called once.
HeadNext ==
    /\ fault = "none"
    /\ headLive
    /\ IF ~headInner
       THEN /\ fault' = "unwrap"
            /\ UNCHANGED <<iterVars, headVars>>
       ELSE LET got == HeadPull(tokens, pos, n_cols)
            IN  /\ pos' = got.pos
                /\ n_cols' = got.n_cols
                /\ peeked' = FALSE
                /\ headEnded' = (headEnded \/ got.res = None)
                /\ headOut' = IF got.res = None THEN headOut ELSE Append(headOut, got.res)
                /\ UNCHANGED <<tokens, headLive, fault>>
    /\ UNCHANGED <<parserVars, ownerVars, rowVars, tableVars, stdout, stderr, pc>>

\* (the cursor copied, self.inner left as it was)
HeadDropOwners_Copy(head, shared) == [head |-> head, rows |-> head]

\* Drop for Head: what rows.inner and self.inner hold afterwards.
HeadDropOwners(head, shared) == [head |-> FALSE, rows |-> head]

\* The Head value goes out of scope.
HeadDrop ==
    /\ fault = "none"
    /\ headLive
    /\ headLive' = FALSE
    /\ headInner' = HeadDropOwners(headInner, rowsInner).head
    /\ rowsInner' = HeadDropOwners(headInner, rowsInner).rows
    /\ UNCHANGED <<parserVars, iterVars, tailInner, headEnded, headOut, rowVars,
                   tableVars, stdout, stderr, pc, fault>>

\* Table::head(head): the assertion, the header collected, the Head dropped.
TableHead ==
    /\ fault = "none"
    /\ headLive
    /\ headLive' = FALSE
    /\ headInner' = HeadDropOwners(headInner, rowsInner).head
    /\ rowsInner' = HeadDropOwners(headInner, rowsInner).rows
    /\ IF rows # <<>>
       THEN /\ fault' = "assert_head"
            /\ UNCHANGED <<iterVars, headEnded, headOut, tableVars>>
       ELSE IF ~headInner
       THEN /\ fault' = "unwrap"
            /\ UNCHANGED <<iterVars, headEnded, headOut, tableVars>>
       ELSE LET got == HeadCollect(tokens, pos, n_cols, <<>>)
                table == TableWithHeader(Texts(got.out))
            IN  /\ pos' = got.pos
                /\ n_cols' = got.n_cols
                /\ peeked' = FALSE
                /\ headEnded' = TRUE
                /\ headOut' = headOut \o got.out
                /\ rows' = table.rows
                /\ cols_width' = table.cols_width
                /\ headers' = headers + 1
                /\ UNCHANGED <<tokens, rows_len, fault>>
    /\ UNCHANGED <<parserVars, tailInner, rowVars, stdout, stderr, pc>>

\* Tail::row, first part: what self.inner and rows.inner hold after the claim.
TailClaimOwners(tail, shared) ==
    IF tail THEN [tail |-> tail, rows |-> shared] ELSE [tail |-> shared, rows |-> FALSE]

\* Tail::row.  A TailRow borrows the Tail, so none is alive at the call.
TailRowCall ==
    /\ fault = "none"
    /\ ~rowLive
    /\ LET own == TailClaimOwners(tailInner, rowsInner)
       IN  /\ tailInner' = own.tail
           /\ rowsInner' = own.rows
           /\ IF ~own.tail
              THEN /\ fault' = "unwrap"
                   /\ UNCHANGED <<iterVars, rowVars>>
              ELSE /\ peeked' = TRUE
                   /\ IF IterPeek(tokens, pos) = None
                      THEN /\ rowRes' = "None"
                           /\ UNCHANGED <<rowLive, cols_left, state, rowStart, rowOut>>
                      ELSE /\ rowRes' = "Some"
                           /\ rowLive' = TRUE
                           /\ cols_left' = n_cols
                           /\ state' = "Iterate"
                           /\ rowStart' = pos
                           /\ rowOut' = <<>>
                   /\ UNCHANGED <<tokens, pos, n_cols, fault>>
    /\ UNCHANGED <<parserVars, headInner, headVars, tableVars, stdout, stderr, pc>>

\* Iterator::next on the TailRow, called once.
RowNext ==
    /\ fault = "none"
    /\ rowLive
    /\ LET got == RowPull(tokens, pos, cols_left, state)
       IN  /\ pos' = got.pos
           /\ peeked' = (peeked /\ ~got.pulled)
           /\ cols_left' = got.cols_left
           /\ state' = got.state
           /\ rowOut' = IF got.res = None THEN rowOut ELSE Append(rowOut, got.res)
    /\ UNCHANGED <<parserVars, tokens, n_cols, ownerVars, headVars, rowLive, rowRes,
                   rowStart, tableVars, stdout, stderr, pc, fault>>

\* The TailRow value goes out of scope.
RowDrop ==
    /\ fault = "none"
    /\ rowLive
    /\ rowLive' = FALSE
    /\ fault' = IF RowDropPanics(cols_left, FALSE) THEN "drop" ELSE fault
    /\ UNCHANGED <<parserVars, iterVars, ownerVars, headVars, cols_left, state, rowRes,
                   rowStart, rowOut, tableVars, stdout, stderr, pc>>

\* Table::tail(row): the assertion, the loop over the row, the TailRow dropped.
TableTail ==
    /\ fault = "none"
    /\ rowLive
    /\ rows_len < MaxRows
    /\ rowLive' = FALSE
    /\ IF ~TailLenOk(cols_left, cols_width)
       THEN /\ fault' = IF RowDropPanics(cols_left, TRUE) THEN "drop" ELSE "assert_len"
            /\ UNCHANGED <<iterVars, cols_left, state, rowOut, tableVars>>
       ELSE LET got == RowCollect(tokens, pos, cols_left, state, <<>>, FALSE)
                table == TableWithRow(cols_width, rows, Texts(got.out))
            IN  /\ pos' = got.pos
                /\ peeked' = (peeked /\ ~got.pulled)
                /\ cols_left' = got.cols_left
                /\ state' = got.state
                /\ rowOut' = rowOut \o got.out
                /\ rows_len' = rows_len + 1
                /\ rows' = table.rows
                /\ cols_width' = table.cols_width
                /\ fault' = IF RowDropPanics(got.cols_left, FALSE) THEN "drop" ELSE fault
                /\ UNCHANGED <<tokens, n_cols, headers>>
    /\ UNCHANGED <<parserVars, ownerVars, headVars, rowRes, rowStart, stdout, stderr, pc>>

Next ==
    \/ HeadNext
    \/ HeadDrop
    \/ TableHead
    \/ TailRowCall
    \/ RowNext
    \/ RowDrop
    \/ TableTail

Spec == Init /\ [][Next]_vars

(***************************************************************************)
(* main.rs: the header into Table::head, then row() and Table::tail until  *)
(* row() returns None, then print!.                                        *)
(***************************************************************************)
MainHead ==
    /\ pc = "main"
    /\ TableHead

MainRow ==
    /\ pc = "main"
    /\ ~headLive
    /\ rowRes # "None"
    /\ TailRowCall

MainTail ==
    /\ pc = "main"
    /\ TableTail

MainPrint ==
    /\ pc = "main"
    /\ fault = "none"
    /\ rowRes = "None"
    /\ stdout' = stdout \o fmt(cols_width, rows, rows_len)
    /\ pc' = "exit"
    /\ UNCHANGED <<parserVars, iterVars, ownerVars, headVars, rowVars, tableVars, stderr, fault>>

NextMain ==
    \/ MainHead
    \/ MainRow
    \/ MainTail
    \/ MainPrint

SpecMain == Init /\ [][NextMain]_vars

(***************************************************************************)
(* The tokenizer alone, pulled until the caller stops.                     *)
(***************************************************************************)
NextParser == ParserNext

SpecParser == InitText /\ [][NextParser]_vars

(***************************************************************************)
(* The Table alone, called with lists of cells as its own test does:       *)
(* head(["a", ..]), tail(["d", ..]), to_string().                          *)
(***************************************************************************)
MaxCols == 2
MaxHeads == 2

TableTexts == {<<"a">>, <<"b", "b">>}
CellLists == SeqsUpTo(TableTexts, MaxCols)

\* Table::head(cells) with a list.
HeadWith(cells) ==
    /\ pc = "main"
    /\ fault = "none"
    /\ headers < MaxHeads
    /\ IF rows # <<>>
       THEN /\ fault' = "assert_head"
            /\ UNCHANGED tableVars
       ELSE LET table == TableWithHeader(cells)
            IN  /\ rows' = table.rows
                /\ cols_width' = table.cols_width
                /\ headers' = headers + 1
                /\ UNCHANGED <<rows_len, fault>>
    /\ UNCHANGED <<parserVars, iterVars, ownerVars, headVars, rowVars, stdout, stderr, pc>>

\* Table::tail(cells) with a list; cells.len() is the length of the list.
TailWith(cells) ==
    /\ pc = "main"
    /\ fault = "none"
    /\ rows_len < MaxRows
    /\ IF ~TailLenOk(Len(cells), cols_width)
       THEN /\ fault' = "assert_len"
            /\ UNCHANGED tableVars
       ELSE LET table == TableWithRow(cols_width, rows, cells)
            IN  /\ rows_len' = rows_len + 1
                /\ rows' = table.rows
                /\ cols_width' = table.cols_width
                /\ UNCHANGED <<headers, fault>>
    /\ UNCHANGED <<parserVars, iterVars, ownerVars, headVars, rowVars, stdout, stderr, pc>>

TableHeadList == \E cells \in CellLists : HeadWith(cells)

TableTailList == \E cells \in CellLists : TailWith(cells)

\* table.to_string(), the text kept in stdout.
TableToString ==
    /\ pc = "main"
    /\ fault = "none"
    /\ stdout' = fmt(cols_width, rows, rows_len)
    /\ pc' = "exit"
    /\ UNCHANGED <<parserVars, iterVars, ownerVars, headVars, rowVars, tableVars, stderr, fault>>

NextTable ==
    \/ TableHeadList
    \/ TableTailList
    \/ TableToString

\* Table::new() with no text and no token sequence behind it.
InitNewTable ==
    /\ input = <<>>
    /\ InitParserFields
    /\ tokens = <<>>
    /\ InitRows
    /\ InitTable
    /\ stdout = <<>>
    /\ stderr = <<>>
    /\ pc = "main"
    /\ fault = "none"

SpecTable == InitNewTable /\ [][NextTable]_vars

(***************************************************************************)
(* main.rs from the text on: Parser::new(&input).map(..) is the sequence   *)
(* Rows pulls from.  The parser is lazy and depends on nothing but the     *)
(* text, so the sequence is written down at the start, item by item as     *)
(* Iterator::next returns them, up to and with the item that ends the run: *)
(* an Err, on which the closure calls parse_error, or the slice panic.     *)
(***************************************************************************)
RECURSIVE Items(_, _, _, _, _, _)
Items(text, r, p, ls, run, acc) ==
    LET got == ParserPull(text, r, p, ls, run)
    IN  IF got.res = None THEN acc
        ELSE IF got.res = Panic THEN Append(acc, Panic)
        ELSE IF got.res.tag = "Err" THEN Append(acc, got.res)
        ELSE Items(text, got.rest, got.pos, got.lex_start, got.running, Append(acc, got.res.lex))

InitPipe ==
    /\ input \in SeqsUpTo(Chars, MaxInput)
    /\ InitParserFields
    /\ tokens = Items(input, 0, 0, 0, TRUE, <<>>)
    /\ InitRows
    /\ InitTable
    /\ stdout = <<>>
    /\ stderr = <<>>
    /\ pc = "main"
    /\ fault = "none"

\* The place the next statement of main pulls up to: Table::head collects
\* the header, Table::tail loops over the row, row() peeks.
Reach ==
    IF headLive THEN HeadCollect(tokens, pos, n_cols, <<>>).pos
    ELSE IF rowLive THEN RowCollect(tokens, pos, cols_left, state, <<>>, FALSE).pos
    ELSE IF rowRes # "None" THEN IterNext(tokens, pos).pos
    ELSE pos

\* The next statement of main pulls an item of this kind.
Pulls(tag) == Reach > pos /\ tokens[Reach].tag = tag

Interrupted == Pulls("Err") \/ Pulls("Panic")

PipeHead == ~Interrupted /\ MainHead

PipeRow == ~Interrupted /\ MainRow

PipeTail == ~Interrupted /\ MainTail

PipePrint == ~Interrupted /\ MainPrint

\* parse_error: the offset to stderr, then exit(1), inside the pull.
PipeParseError ==
    /\ pc = "main"
    /\ fault = "none"
    /\ Pulls("Err")
    /\ pos' = Reach
    /\ stderr' = Append(stderr, tokens[Reach].at)
    /\ pc' = "error"
    /\ UNCHANGED <<parserVars, tokens, peeked, n_cols, ownerVars, headVars, rowVars, tableVars,
                   stdout, fault>>

\* The slice of Parser::next panics inside the pull.
PipeSlicePanic ==
    /\ pc = "main"
    /\ fault = "none"
    /\ Pulls("Panic")
    /\ pos' = Reach
    /\ fault' = "slice"
    /\ UNCHANGED <<parserVars, tokens, peeked, n_cols, ownerVars, headVars, rowVars, tableVars,
                   stdout, stderr, pc>>

NextPipe ==
    \/ PipeHead
    \/ PipeRow
    \/ PipeTail
    \/ PipePrint
    \/ PipeParseError
    \/ PipeSlicePanic

SpecPipe == InitPipe /\ [][NextPipe]_vars

(***************************************************************************)
(* What the specification says a line and a text hold, for the claims.     *)
(***************************************************************************)
\* The place of the first NewLine after place p, or 0 when there is none.
NextNewLine(toks, p) ==
    LET at == {i \in (p + 1)..Len(toks) : toks[i].tag = "NewLine"}
    IN  IF at = {} THEN 0 ELSE CHOOSE i \in at : \A j \in at : i <= j

Min(a, b) == IF a <= b THEN a ELSE b

\* N values: the first cells of the line that starts after place p, then
\* empty texts.  k is the number of cells on the line.
NormalizedLine(toks, p, k, n) ==
    [i \in 1..n |-> IF i <= Min(k, n) THEN Some(toks[p + i].text, p + i) ELSE Some(<<>>, 0)]

\* The row cursor made by the latest row() has no value left, the header
\* view having been drained and dropped before.
RowDrained == /\ fault = "none"
              /\ headEnded /\ ~headLive
              /\ rowRes = "Some"
              /\ cols_left = 0

\* The tokens of a text as section 4.1 describes them, scanned from code
\* point i on; cellAt is the place of the open quote, 0 outside a cell.
RECURSIVE RefScan(_, _, _, _)
RefScan(text, i, cellAt, acc) ==
    IF i > Len(text)
    THEN [tokens |-> acc, errAt |-> cellAt]
    ELSE IF cellAt # 0
    THEN IF text[i] = QUOTE
         THEN RefScan(text, i + 1, 0, Append(acc, Ok(Cell(SubSeq(text, cellAt + 1, i - 1)))))
         ELSE RefScan(text, i + 1, cellAt, acc)
    ELSE IF text[i] = LineFeed THEN RefScan(text, i + 1, 0, Append(acc, Ok(NewLine)))
    ELSE IF text[i] = QUOTE THEN RefScan(text, i + 1, i, acc)
    ELSE IF text[i] \in {" ", "U+00A0"} THEN RefScan(text, i + 1, 0, acc)
    ELSE [tokens |-> acc, errAt |-> i]

RefTokens(text) == RefScan(text, 1, 0, <<>>).tokens

\* The place of the offending code point, 0 when the text is well formed.
RefErrAt(text) == RefScan(text, 1, 0, <<>>).errAt

IsPrefix(s, t) == Len(s) <= Len(t) /\ SubSeq(t, 1, Len(s)) = s

HasErr(items) == \E i \in 1..Len(items) : items[i].tag = "Err"

(***************************************************************************)
(* The claims.                                                             *)
(***************************************************************************)

\* C1: with a header of N >= 1 columns drained and dropped, a row cursor
\* made on a line of k cells that a NewLine ends yields, once drained,
\* exactly N values: the first min(k, N) cells of the line in order, then
\* empty texts; the cells beyond the N-th are discarded and the cursor
\* stands right after the line's NewLine.
C1_RowNormalized ==
    LET e == NextNewLine(tokens, rowStart)
    IN  (RowDrained /\ n_cols >= 1 /\ e # 0)
            => /\ rowOut = NormalizedLine(tokens, rowStart, e - 1 - rowStart, n_cols)
               /\ pos = e

\* A drained row cursor whose line held more cells than the header, with
\* tokens left after the line's NewLine.
C1_Witness ==
    LET e == NextNewLine(tokens, rowStart)
    IN  /\ RowDrained /\ n_cols >= 1 /\ e # 0
        /\ e - 1 - rowStart > n_cols
        /\ e < Len(tokens)

\* C2: under main's composition no caller-misuse fault is reachable: the
\* drop check of a row cursor never fires, the length assertion of
\* Table::tail never fails and the hand-off never panics.
C2_NoMisuseFault == fault = "none"

\* C3: when the input ends while a row cursor has yielded k values,
\* 1 <= k < N, the cursor yields the empty text for the N - k columns left,
\* and the following row() reports no more rows.
C3_EndOfInputFills ==
    LET k == Len(tokens) - rowStart
    IN  (RowDrained /\ NextNewLine(tokens, rowStart) = 0 /\ 1 <= k /\ k < n_cols)
            => /\ rowOut = NormalizedLine(tokens, rowStart, k, n_cols)
               /\ IterPeek(tokens, pos) = None

\* C4: the flattened store holds exactly N x (M + 1) cells, N the number of
\* columns and M the recorded number of body rows.
C4_StoreShape ==
    fault = "none" => Len(rows) = cols_len(cols_width) * (rows_len + 1)

OneHolder ==
    \/ headInner /\ ~rowsInner /\ ~tailInner
    \/ ~headInner /\ rowsInner /\ ~tailInner
    \/ ~headInner /\ ~rowsInner /\ tailInner

\* One step keeps the cursor with one holder, hands it only from the header
\* view to the shared state when the header view is dropped and from the
\* shared state to the tail view in a row() call, and a row() call made
\* while the header view holds it faults and takes no token.
CursorStep ==
    /\ OneHolder'
    /\ headInner' => headInner
    /\ rowsInner' => (rowsInner \/ (headInner /\ headLive /\ ~headLive'))
    /\ tailInner' => (tailInner \/ (rowsInner /\ TailRowCall))
    /\ (TailRowCall /\ headInner) => (fault' # "none" /\ pos' = pos /\ peeked' = peeked)

\* C5: the shared token cursor is held by exactly one of the header view,
\* the shared Rows state and the tail view in every reachable state; it
\* moves only header view -> shared state -> tail view; a row() call made
\* while the header view holds it is a fatal fault and consumes no token.
C5_CursorOwnership == OneHolder /\ [][CursorStep]_vars

\* The tail view has claimed the cursor and made a row cursor.
C5_Witness == tailInner /\ ~headLive /\ rowRes = "Some" /\ pos > 0

\* The place of the header's terminator: the first NewLine, or the end.
HeaderEnd(toks) == IF NextNewLine(toks, 0) = 0 THEN Len(toks) + 1 ELSE NextNewLine(toks, 0)

\* C6: whenever row() returns instead of faulting, the header view had been
\* pulled until its terminator, so the column count of every body row is
\* the number of cells on the header line and no token of the header line
\* is delivered as a body cell.
C6_HeaderDrainedFirst ==
    rowRes \in {"Some", "None"}
        => /\ headEnded
           /\ n_cols = HeaderEnd(tokens) - 1
           /\ \A i \in 1..Len(rowOut) : rowOut[i].src = 0 \/ rowOut[i].src > HeaderEnd(tokens)

\* C7: releasing a row cursor whose remaining length is nonzero raises a
\* fatal fault (the drop check, unless the release is part of an unwinding
\* assertion failure), releasing one whose remaining length is zero does
\* not fire the drop check, and no row() call is served while the previous
\* row cursor has values left.
C7_DropCheck ==
    [][/\ (rowLive /\ ~rowLive' /\ cols_left' # 0) => fault' \in {"drop", "assert_len"}
       /\ (rowLive /\ ~rowLive' /\ cols_left' = 0) => fault' # "drop"
       /\ TailRowCall => (~rowLive /\ cols_left = 0)]_vars

\* A row cursor released after some but not all of its values: the fault.
C7_Witness == fault = "drop" /\ cols_left > 0 /\ Len(rowOut) > 0

\* C8: for a well-formed text the tokenizer's output is, in input order,
\* one NewLine per line feed outside quotes and one Cell per quoted pair
\* with the text strictly between the quotes, and nothing else.
C8_TokensAsWritten ==
    RefErrAt(input) = 0
        => /\ fault = "none"
           /\ IsPrefix(produced, RefTokens(input))
           /\ (lastRes = None /\ rest = Len(input)) => produced = RefTokens(input)

\* C9: after the tokenizer has yielded an error every later pull returns
\* end-of-sequence and yields nothing more.
C9_ErrorIsLast == [][HasErr(produced) => (lastRes' = None /\ produced' = produced)]_vars

\* A pull after the error returned None although input was left unread.
C9_Witness == HasErr(produced) /\ lastRes = None /\ rest < Len(input)

\* C10: the offset an error carries is the UTF-8 byte offset of the
\* offending place: the first code point outside a cell that is neither
\* white space nor a quote, or the opening quote of an unterminated cell.
C10_ErrorOffset ==
    \A i \in 1..Len(produced) :
        produced[i].tag = "Err"
            => /\ RefErrAt(input) # 0
               /\ produced[i].at = ByteOffset(input, RefErrAt(input) - 1)

\* An error whose byte offset differs from its code point index.
C10_Witness ==
    \E i \in 1..Len(produced) :
        /\ produced[i].tag = "Err"
        /\ produced[i].at > RefErrAt(input) - 1


\* The lines of section 4.3, written from its words: line j of the table
\* (0 the header, 1..m the body rows in append order) holds the n cells
\* store[n*j + 1 .. n*j + n].
RECURSIVE Flatten(_)
Flatten(lines) == IF lines = <<>> THEN <<>> ELSE Head(lines) \o Flatten(Tail(lines))

RefLine(widths, store, j) ==
    LET n == Len(widths)
    IN  Flatten([i \in 1..n |->
                    <<"|", " ">> \o store[n * j + i]
                        \o [k \in 1..(widths[i] - Len(store[n * j + i])) |-> " "]
                        \o <<" ">>])
            \o <<"|", LineFeed>>

RefSeparator(widths) ==
    Flatten([i \in 1..Len(widths) |-> <<"|">> \o [k \in 1..(widths[i] + 2) |-> "-"]])
        \o <<"|", LineFeed>>

RefRender(widths, store, m) ==
    IF Len(widths) = 0 THEN <<>>
    ELSE IF m = 1 THEN RefLine(widths, store, 0)
    ELSE RefLine(widths, store, 0) \o RefSeparator(widths)
            \o Flatten([j \in 1..m |-> RefLine(widths, store, j)])

\* The table holds a header of n cells and m rows of n cells each.
HeaderAndRows == Len(rows) = cols_len(cols_width) * (rows_len + 1)

\* C11: the text to_string() returns for a table of N header cells and M
\* accepted body rows of N cells each is the header line alone when M = 1,
\* and otherwise the header line, one separator line and the M body rows in
\* append order, every cell padded on the right to its column's width; with
\* no header cell the text is empty.
C11_Rendering ==
    (pc = "exit" /\ HeaderAndRows) => stdout = RefRender(cols_width, rows, rows_len)

\* A rendered table of two columns and one body row: the header line alone.
C11_WitnessOneRow ==
    /\ pc = "exit"
    /\ HeaderAndRows
    /\ cols_len(cols_width) = 2
    /\ rows_len = 1
    /\ stdout = RefLine(cols_width, rows, 0)


\* The code-point lengths of the cells the store holds for column i, the
\* header cell among them.
ColumnLengths(i) ==
    {chars_count(rows[j]) : j \in {k \in 1..Len(rows) : (k - 1) % cols_len(cols_width) = i - 1}}

WidthIsMax ==
    \A i \in 1..cols_len(cols_width) :
        /\ cols_width[i] \in ColumnLengths(i)
        /\ \A len \in ColumnLengths(i) : len <= cols_width[i]

\* A step that accepts a body row.
RowAccepted == rows_len' = rows_len + 1

\* C12: after any sequence of head and tail calls every column's width is
\* the greatest code-point length among the header cell and the body cells
\* of that column, and a tail call never lowers a width.
C12_Widths ==
    /\ []WidthIsMax
    /\ [][RowAccepted => /\ cols_len(cols_width') = cols_len(cols_width)
                         /\ \A i \in 1..cols_len(cols_width) : cols_width'[i] >= cols_width[i]]_vars

\* A column widened by its first body cell and kept by a shorter second one.
C12_Witness ==
    /\ fault = "none"
    /\ rows_len = 2
    /\ cols_len(cols_width) = 2
    /\ chars_count(rows[1]) = 1 /\ chars_count(rows[3]) = 2 /\ chars_count(rows[5]) = 1
    /\ cols_width[1] = 2


\* C16: a tail call with a row whose length is not the column count fails
\* on the assertion before anything is changed: the widths, the store and
\* rows_len are what they were.
C16_RejectedRowChangesNothing ==
    [][\A cells \in CellLists :
          (TailWith(cells) /\ Len(cells) # cols_len(cols_width))
              => (fault' = "assert_len" /\ UNCHANGED <<cols_width, rows, rows_len>>)]_vars

\* A row of one cell refused by a table of two columns that already holds
\* a body row.
C16_Witness ==
    /\ fault = "assert_len"
    /\ cols_len(cols_width) = 2
    /\ rows_len = 1
    /\ Len(rows) = 4

\* A step in which Table::head stores a header.
HeaderStored == headers' = headers + 1

\* C17: a header is stored at most once and never after a body row was
\* accepted; Table::head on a table that has a header or a body row fails.
C17_HeaderOnce ==
    [][HeaderStored => (headers = 0 /\ rows_len = 0)]_vars


\* The values of out that are not fillers are Cell tokens that lie after
\* place `from`, have been pulled, and come in the order of the sequence.
InInputOrder(out, from) ==
    \A i \in 1..Len(out) :
        out[i].src # 0 =>
            /\ out[i].src > from /\ out[i].src <= pos
            /\ tokens[out[i].src] = Cell(out[i].text)
            /\ \A j \in 1..(i - 1) : out[j].src # 0 => out[j].src < out[i].src

\* The cursor of the first body row is live.
FirstRowLive == rowLive /\ rows_len = 0

C13_Delivered ==
    /\ InInputOrder(headOut, 0)
    /\ rowRes = "Some" =>
          /\ InInputOrder(rowOut, rowStart)
          /\ \A i \in 1..Len(headOut) : headOut[i].src <= rowStart
    /\ FirstRowLive =>
          /\ rowStart = NextNewLine(tokens, 0)
          /\ Len(headOut) = rowStart - 1

\* C13: over one run of main the cells delivered by the header view and
\* then by the row cursors are Cell tokens of the sequence in its order,
\* every cursor starts where the one before stopped, the place in the
\* sequence never goes back, and the first body row starts right after the
\* NewLine that ended the header, every token before it being a header cell.
C13_PulledOnceInOrder ==
    /\ []C13_Delivered
    /\ [][/\ pos' >= pos
          /\ (rowLive' /\ ~rowLive) => (rowStart' = pos /\ pos' = pos)]_vars

\* The second body row drained: its one cell and its NewLine pulled after
\* a header of one cell and a first row.
C13_Witness ==
    /\ fault = "none"
    /\ rows_len = 2
    /\ Len(headOut) = 1
    /\ Len(rowOut) = 1 /\ rowOut[1].src = rowStart + 1
    /\ pos = rowStart + 2


\* The run is over: main returned, parse_error ended it, or it panicked.
Ended == pc # "main" \/ fault # "none"

\* C14: a text with a malformed token makes the run end in parse_error with
\* the offset of the offending place and nothing written to stdout; the
\* table is printed only once every token has been pulled without error.
C14_MalformedReported ==
    /\ RefErrAt(input) # 0 =>
          /\ stdout = <<>>
          /\ Ended => /\ pc = "error" /\ fault = "none"
                      /\ stderr = <<ByteOffset(input, RefErrAt(input) - 1)>>
    /\ pc = "exit" => (pos = Len(tokens) /\ stderr = <<>>)


\* C15: while a row cursor lives, the length it reports is the column count
\* less the values it has yielded, so a cursor that reports r yields r more
\* values before it ends.
C15_ExactLength ==
    (fault = "none" /\ rowRes = "Some") => cols_left = n_cols - Len(rowOut)


\* C18: every row cursor row() returned has, once drained and dropped by
\* main's loop, pulled at least one token, whatever the column count, so
\* the loop comes to the end of a finite sequence.
C18_RowConsumes ==
    (fault = "none" /\ rowRes = "Some" /\ ~rowLive) => pos > rowStart

\* C19: once the header view has returned None, a further pull from it
\* yields nothing, pulls no token and leaves n_cols as it was.
C19_HeadStaysEnded ==
    [][(headEnded /\ headLive')
          => (pos' = pos /\ n_cols' = n_cols /\ headOut' = headOut)]_vars

\* The latest row() found a NewLine as the next token.
BlankLineNext == rowStart < Len(tokens) /\ tokens[rowStart + 1] = NewLine

\* C20, as stated: row() on a wholly blank line reports no more rows, so
\* no row cursor starts at a NewLine.
C20_BlankLineEndsRows == rowRes = "Some" => ~BlankLineNext

\* C20, amended: row() on a wholly blank line returns a row cursor; with one
\* or more columns the cursor, drained, has yielded an empty text for every
\* column and pulled that NewLine alone.  row() reports no more rows only
\* when no token is left.
C20_BlankLineIsRow ==
    /\ rowRes = "None" => pos = Len(tokens)
    /\ (rowRes = "Some" /\ BlankLineNext /\ ~rowLive /\ fault = "none" /\ n_cols >= 1)
          => /\ rowOut = [i \in 1..n_cols |-> Some(<<>>, 0)]
             /\ pos = rowStart + 1

\* A blank line between two lines, drained as a row of two empty texts.
C20_Witness ==
    /\ rowRes = "Some" /\ BlankLineNext /\ ~rowLive /\ fault = "none"
    /\ n_cols = 2
    /\ Len(rowOut) = 2
    /\ pos < Len(tokens)

====
